---- MODULE Spec2Model ----
(***************************************************************************)
(* A model of the MemOS integration glue:                                  *)
(*   - memos/mem_user/postgres_user_manager.py  (schema validation and     *)
(*     PostgresUserManager start-up),                                      *)
(*   - memos/llms/openai.py  (OpenAILLM.generate / generate_stream:        *)
(*     request shaping, fallback chain, think-marker bracketing),          *)
(*   - memos/embedders/universal_api.py  (UniversalAPIEmbedder.embed),     *)
(*   - memos/configs/mem_user.py, memos/mem_user/factory.py and            *)
(*     memos/mem_user/persistent_factory.py  (backend dispatch and the     *)
(*     environment overrides of the manager factories).                    *)
(* Python strings that the code inspects character by character (schema    *)
(* names, model names, error messages) are sequences of one-character      *)
(* strings, so that startswith / strip / lower / "in" are computed.        *)
(***************************************************************************)
EXTENDS Integers, Sequences, FiniteSets, TLC

VARIABLES
    \* ---- PostgresUserManager.__init__ ----
    pg_pc,        \* position inside __init__
    pg_arg,       \* the schema argument as the caller passed it
    pg_schema,    \* the local variable schema
    pg_exc,       \* the exception __init__ raised, or NoExc
    pg_self,      \* attributes set on self (schema, engine)
    io,           \* engine / connection / SQL operations performed so far
    db,           \* the database: schemas, schemas holding the tables, user rows
    db0,          \* the database as it was when __init__ was entered
    pg_starts,    \* how many times a manager has been constructed on this database
    pg_call,      \* the last create_user / create_cube call and what it returned
    \* ---- OpenAILLM / UniversalAPIEmbedder ----
    method,       \* which wrapper method is running
    config,       \* self.config
    env,          \* os.environ (the fallback-model variables)
    llm_pc,       \* position inside the method
    requests,     \* vendor requests issued so far, in order
    replies,      \* what the vendor did with each request: returned, or raised
    outcome,      \* what the caller got: a value, a propagated error, or nothing yet
    consumed,     \* chunks pulled from the SDK iterator so far
    output,       \* elements the generator has yielded so far
    reasoning_started,
    \* ---- UserManagerConfigFactory / the two manager factories ----
    f_pc,         \* position: building the config factory, inside from_config, done
    f_kind,       \* which factory: "user" (UserManagerFactory) or "persistent"
    f_arg,        \* the arguments given to UserManagerConfigFactory(...)
    f_env,        \* os.environ (backend and connection variables)
    cf,           \* the UserManagerConfigFactory object, or the validation error
    f_reads,      \* names of the environment variables read so far
    f_result      \* what from_config handed back: a manager constructor call or an error

pgVars  == <<pg_pc, pg_arg, pg_schema, pg_exc, pg_self, io, db, db0, pg_starts, pg_call>>
llmVars == <<method, config, env, llm_pc, requests, replies, outcome,
             consumed, output, reasoning_started>>
fVars   == <<f_pc, f_kind, f_arg, f_env, cf, f_reads, f_result>>
vars    == <<pgVars, llmVars, fVars>>

\* An optional value is a sequence of length 0 (Python None, or an absent
\* attribute read through getattr(..., None)) or of length 1.
None == <<>>

Some(x) == <<x>>

(***************************************************************************)
(* Python str operations on character sequences                            *)
(***************************************************************************)
ascii_lowercase ==
    {"a", "b", "c", "d", "e", "f", "g", "h", "i", "j", "k", "l", "m",
     "n", "o", "p", "q", "r", "s", "t", "u", "v", "w", "x", "y", "z"}

ascii_uppercase ==
    {"A", "B", "C", "D", "E", "F", "G", "H", "I", "J", "K", "L", "M",
     "N", "O", "P", "Q", "R", "S", "T", "U", "V", "W", "X", "Y", "Z"}

ascii_letters == ascii_lowercase \cup ascii_uppercase

digits == {"0", "1", "2", "3", "4", "5", "6", "7", "8", "9"}

whitespace == {" "}

LowerMap ==
    "A" :> "a" @@ "B" :> "b" @@ "C" :> "c" @@ "D" :> "d" @@ "E" :> "e" @@
    "F" :> "f" @@ "G" :> "g" @@ "H" :> "h" @@ "I" :> "i" @@ "J" :> "j" @@
    "K" :> "k" @@ "L" :> "l" @@ "M" :> "m" @@ "N" :> "n" @@ "O" :> "o" @@
    "P" :> "p" @@ "Q" :> "q" @@ "R" :> "r" @@ "S" :> "s" @@ "T" :> "t" @@
    "U" :> "u" @@ "V" :> "v" @@ "W" :> "w" @@ "X" :> "x" @@ "Y" :> "y" @@
    "Z" :> "z"

\* str.lower()
Lower(s) == [i \in 1..Len(s) |-> IF s[i] \in ascii_uppercase THEN LowerMap[s[i]] ELSE s[i]]

\* sub in s
Contains(s, sub) ==
    \E i \in 0..(Len(s) - Len(sub)) : SubSeq(s, i + 1, i + Len(sub)) = sub

\* s.startswith(prefix)
StartsWith(s, prefix) ==
    /\ Len(s) >= Len(prefix)
    /\ SubSeq(s, 1, Len(prefix)) = prefix

\* s.strip()
Strip(s) ==
    LET keep == {i \in 1..Len(s) : s[i] \notin whitespace}
    IN  IF keep = {} THEN <<>>
        ELSE LET lo == CHOOSE i \in keep : \A j \in keep : i <= j
                 hi == CHOOSE i \in keep : \A j \in keep : j <= i
             IN  SubSeq(s, lo, hi)

(***************************************************************************)
(* Exceptions and what a call hands back to its caller                     *)
(***************************************************************************)
NoExc == [type |-> "none", message |-> "none"]

ValueError(m) == [type |-> "ValueError", message |-> m]

OperationalError == [type |-> "OperationalError", message |-> "driver"]

\* an error raised by the vendor SDK during the call-th vendor call
VendorError(call, msg) == [call |-> call, msg |-> msg]

Pending == [kind |-> "pending", error |-> None, via |-> "none"]

Returned(via) == [kind |-> "returned", error |-> None, via |-> via]

Raised(e) == [kind |-> "raised", error |-> Some(e), via |-> "none"]

(***************************************************************************)
(* memos/mem_user/postgres_user_manager.py                                 *)
(***************************************************************************)
MaxSchemaLen == 3

SchemaAlphabet == {"a", "Z", "_", "1", "-"}

memos    == <<"m", "e", "m", "o", "s">>
private  == <<"_", "p", "r", "i", "v", "a", "t", "e">>
schema_1 == <<"s", "c", "h", "e", "m", "a", "_", "1">>

SchemaInputs ==
    UNION {[1..n -> SchemaAlphabet] : n \in 0..MaxSchemaLen}
        \cup {memos, private, schema_1}

ALLOWED_SCHEMA_CHARS == ascii_letters \cup digits \cup {"_"}

\* _validate_schema: the exception it raises (NoExc when it returns) and the value returned
validate_schema_digit_first(schema) ==
    IF schema = <<>> THEN [exc |-> ValueError("cannot be empty"), ret |-> None]
    ELSE IF schema[1] \notin ALLOWED_SCHEMA_CHARS
        THEN [exc |-> ValueError("must start with a letter or underscore"), ret |-> None]
    ELSE IF \E i \in 1..Len(schema) : schema[i] \notin ALLOWED_SCHEMA_CHARS
        THEN [exc |-> ValueError("may only contain letters, numbers, and underscores"),
              ret |-> None]
    ELSE [exc |-> NoExc, ret |-> Some(schema)]

validate_schema(schema) ==
    IF schema = <<>> THEN [exc |-> ValueError("cannot be empty"), ret |-> None]
    ELSE IF schema[1] \notin (ascii_letters \cup {"_"})
        THEN [exc |-> ValueError("must start with a letter or underscore"), ret |-> None]
    ELSE IF \E i \in 1..Len(schema) : schema[i] \notin ALLOWED_SCHEMA_CHARS
        THEN [exc |-> ValueError("may only contain letters, numbers, and underscores"),
              ret |-> None]
    ELSE [exc |-> NoExc, ret |-> Some(schema)]

\* ---- the database ----
RootUserId == "root"

RootRow(s) == [schema |-> s, user_id |-> RootUserId, user_name |-> RootUserId, role |-> "ROOT"]

EmptyDb == [schemas |-> {}, tables |-> {}, users |-> {}, cubes |-> {}, access |-> {}]

PopulatedDb ==
    [schemas |-> {memos}, tables |-> {memos},
     users |-> {RootRow(memos),
                [schema |-> memos, user_id |-> "u1", user_name |-> "alice", role |-> "USER"]},
     cubes |-> {[schema |-> memos, cube_id |-> "c1", cube_name |-> "notes", owner_id |-> "u1"]},
     access |-> {[schema |-> memos, user_id |-> "u1", cube_id |-> "c1"]}]

DbStates == {EmptyDb, PopulatedDb}

\* CREATE SCHEMA IF NOT EXISTS <schema>
CreateSchemaIfNotExists(d, s) == [d EXCEPT !.schemas = @ \cup {s}]

\* create_all that drops and re-creates the tables
create_all_recreates(d, s) ==
    [d EXCEPT !.tables = @ \cup {s},
              !.users = {u \in @ : u.schema # s},
              !.cubes = {c \in @ : c.schema # s},
              !.access = {a \in @ : a.schema # s}]

\* Base.metadata.create_all(bind=engine): creates the missing tables in the search path
create_all(d, s) == [d EXCEPT !.tables = @ \cup {s}]

\* MySQLUserManager._init_root_user: add the root user when it is absent
init_root_user(d, s, user_id) ==
    IF \E u \in d.users : u.schema = s /\ u.user_id = user_id
    THEN d
    ELSE [d EXCEPT !.users = @ \cup {RootRow(s)}]

\* ---- the manager operations inherited from MySQLUserManager ----
MaxUsers == 1

MaxCubes == 1

MaxStarts == 2

UserNames == {"alice", "bob"}

CubeNames == {"notes", "papers"}

Roles == {"ADMIN", "USER"}

\* identifiers a uuid4 call can deliver
UserIdPool == {"u1", "u2", "u3", "u4"}

CubeIdPool == {"c1", "c2", "c3", "c4"}

\* rows added by create_user / create_cube since the database was set up
CreatedUsers(d) == {u \in d.users : u.role # "ROOT"} \ PopulatedDb.users

CreatedCubes(d) == d.cubes \ PopulatedDb.cubes

UsersOf(d, s) == {u \in d.users : u.schema = s}

CubesOf(d, s) == {c \in d.cubes : c.schema = s}

\* create_user: the id of the user of that name, created when there is none
create_user(d, s, user_name, role, new_id) ==
    IF \E u \in UsersOf(d, s) : u.user_name = user_name
    THEN [db |-> d,
          ret |-> Some((CHOOSE u \in UsersOf(d, s) : u.user_name = user_name).user_id)]
    ELSE [db |-> [d EXCEPT !.users = @ \cup {[schema |-> s, user_id |-> new_id,
                                              user_name |-> user_name, role |-> role]}],
          ret |-> Some(new_id)]

\* create_cube without giving the owner access to the cube
create_cube_no_access(d, s, cube_name, owner_id, new_id) ==
    IF ~\E u \in UsersOf(d, s) : u.user_id = owner_id
    THEN [db |-> d, ret |-> None]
    ELSE [db |-> [d EXCEPT !.cubes = @ \cup {[schema |-> s, cube_id |-> new_id,
                                              cube_name |-> cube_name,
                                              owner_id |-> owner_id]}],
          ret |-> Some(new_id)]

\* create_cube: a new cube owned by owner_id, who is given access to it; an
\* unknown owner is refused (ret = None stands for the error raised)
create_cube(d, s, cube_name, owner_id, new_id) ==
    IF ~\E u \in UsersOf(d, s) : u.user_id = owner_id
    THEN [db |-> d, ret |-> None]
    ELSE [db |-> [d EXCEPT !.cubes = @ \cup {[schema |-> s, cube_id |-> new_id,
                                              cube_name |-> cube_name,
                                              owner_id |-> owner_id]},
                           !.access = @ \cup {[schema |-> s, user_id |-> owner_id,
                                               cube_id |-> new_id]}],
          ret |-> Some(new_id)]

\* get_cube: the rows with that id (none, or one)
get_cube(d, s, cube_id) == {c \in CubesOf(d, s) : c.cube_id = cube_id}

\* get_user
get_user(d, s, user_id) == {u \in UsersOf(d, s) : u.user_id = user_id}

validate_user_cube_access(d, s, user_id, cube_id) ==
    /\ get_user(d, s, user_id) # {}
    /\ [schema |-> s, user_id |-> user_id, cube_id |-> cube_id] \in d.access

NoCall == [op |-> "none", name |-> "", owner |-> "", role |-> "", ret |-> None]

NoSelf == [schema |-> None, engine |-> FALSE]

PgInit ==
    /\ pg_pc = "entered"
    /\ pg_arg \in SchemaInputs
    /\ pg_schema = pg_arg
    /\ pg_exc = NoExc
    /\ pg_self = NoSelf
    /\ io = <<>>
    /\ db \in DbStates
    /\ db0 = db
    /\ pg_starts = 1
    /\ pg_call = NoCall

\* line 44: schema = _validate_schema(schema)
\* a raise leaves __init__ at once; a return goes on to line 45
AfterValidation_ignore_raise(r) == "validated"

AfterValidation(r) == IF r.exc = NoExc THEN "validated" ELSE "raised"

PgValidate ==
    /\ pg_pc = "entered"
    /\ LET r == validate_schema(pg_schema)
       IN  /\ pg_exc' = r.exc
           /\ pg_schema' = IF r.exc = NoExc THEN r.ret[1] ELSE pg_schema
           /\ pg_pc' = AfterValidation(r)
    /\ UNCHANGED <<pg_arg, pg_self, io, db, db0, pg_starts, pg_call>>

\* lines 45-73: build the URL, create the (lazy) engine and session factory
PgCreateEngine ==
    /\ pg_pc = "validated"
    /\ pg_self' = [schema |-> Some(pg_schema), engine |-> TRUE]
    /\ io' = Append(io, "create_engine")
    /\ pg_pc' = "engine"
    /\ UNCHANGED <<pg_arg, pg_schema, pg_exc, db, db0, pg_starts, pg_call>>

\* lines 75-76: open a connection and CREATE SCHEMA IF NOT EXISTS
PgCreateSchema ==
    /\ pg_pc = "engine"
    /\ \E ok \in BOOLEAN :
        IF ok
        THEN /\ io' = io \o <<"connect", "SET search_path", "CREATE SCHEMA IF NOT EXISTS">>
             /\ db' = CreateSchemaIfNotExists(db, pg_schema)
             /\ pg_pc' = "schema"
             /\ UNCHANGED pg_exc
        ELSE /\ io' = Append(io, "connect")
             /\ pg_exc' = OperationalError
             /\ pg_pc' = "raised"
             /\ UNCHANGED db
    /\ UNCHANGED <<pg_arg, pg_schema, pg_self, db0, pg_starts, pg_call>>

\* line 79: Base.metadata.create_all(bind=self.engine)
PgCreateTables ==
    /\ pg_pc = "schema"
    /\ \E ok \in BOOLEAN :
        IF ok
        THEN /\ io' = Append(io, "create_all")
             /\ db' = create_all(db, pg_schema)
             /\ pg_pc' = "tables"
             /\ UNCHANGED pg_exc
        ELSE /\ io' = Append(io, "connect")
             /\ pg_exc' = OperationalError
             /\ pg_pc' = "raised"
             /\ UNCHANGED db
    /\ UNCHANGED <<pg_arg, pg_schema, pg_self, db0, pg_starts, pg_call>>

\* __init__ returns without having called _init_root_user
PgInitRootUser_skipped ==
    /\ pg_pc = "tables"
    /\ pg_pc' = "initialized"
    /\ UNCHANGED <<pg_arg, pg_schema, pg_exc, pg_self, io, db, db0, pg_starts, pg_call>>

\* line 82: self._init_root_user(user_id)
PgInitRootUser ==
    /\ pg_pc = "tables"
    /\ \E ok \in BOOLEAN :
        IF ok
        THEN /\ io' = Append(io, "init_root_user")
             /\ db' = init_root_user(db, pg_schema, RootUserId)
             /\ pg_pc' = "initialized"
             /\ UNCHANGED pg_exc
        ELSE /\ io' = Append(io, "connect")
             /\ pg_exc' = OperationalError
             /\ pg_pc' = "raised"
             /\ UNCHANGED db
    /\ UNCHANGED <<pg_arg, pg_schema, pg_self, db0, pg_starts, pg_call>>

\* manager.create_user(user_name, role)
PgCreateUser ==
    /\ pg_pc = "initialized"
    /\ Cardinality(CreatedUsers(db)) < MaxUsers
    /\ \E user_name \in UserNames, role \in Roles,
          new_id \in UserIdPool \ {u.user_id : u \in db.users} :
        LET r == create_user(db, pg_schema, user_name, role, new_id)
        IN  /\ db' = r.db
            /\ pg_call' = [op |-> "create_user", name |-> user_name, owner |-> "",
                           role |-> role, ret |-> r.ret]
    /\ UNCHANGED <<pg_pc, pg_arg, pg_schema, pg_exc, pg_self, io, db0, pg_starts>>

\* manager.create_cube(cube_name, owner_id=owner_id)
PgCreateCube ==
    /\ pg_pc = "initialized"
    /\ Cardinality(CreatedCubes(db)) < MaxCubes
    /\ \E cube_name \in CubeNames,
          owner_id \in {u.user_id : u \in UsersOf(db, pg_schema)} \cup {"nobody"},
          new_id \in CubeIdPool \ {c.cube_id : c \in db.cubes} :
        LET r == create_cube(db, pg_schema, cube_name, owner_id, new_id)
        IN  /\ db' = r.db
            /\ pg_call' = [op |-> "create_cube", name |-> cube_name, owner |-> owner_id,
                           role |-> "", ret |-> r.ret]
    /\ UNCHANGED <<pg_pc, pg_arg, pg_schema, pg_exc, pg_self, io, db0, pg_starts>>

\* a manager is constructed again, with the same arguments, on the database as it is
PgStartAgain ==
    /\ pg_pc = "initialized"
    /\ pg_starts < MaxStarts
    /\ pg_pc' = "entered"
    /\ pg_schema' = pg_arg
    /\ pg_exc' = NoExc
    /\ pg_self' = NoSelf
    /\ io' = <<>>
    /\ db0' = db
    /\ pg_starts' = pg_starts + 1
    /\ pg_call' = NoCall
    /\ UNCHANGED <<pg_arg, db>>

PgNext ==
    \/ PgValidate
    \/ PgCreateEngine
    \/ PgCreateSchema
    \/ PgCreateTables
    \/ PgInitRootUser

\* the life of a database: managers start on it and create users and cubes
LifecycleSchemas == {memos, schema_1}

PgLifeInit == PgInit /\ pg_arg \in LifecycleSchemas

PgLifeNext ==
    \/ PgNext
    \/ PgCreateUser
    \/ PgCreateCube
    \/ PgStartAgain

(***************************************************************************)
(* Claims about schema validation and manager start-up (under SpecPg)      *)
(***************************************************************************)
ClaimWordChars ==
    {"a", "b", "c", "d", "e", "f", "g", "h", "i", "j", "k", "l", "m",
     "n", "o", "p", "q", "r", "s", "t", "u", "v", "w", "x", "y", "z",
     "A", "B", "C", "D", "E", "F", "G", "H", "I", "J", "K", "L", "M",
     "N", "O", "P", "Q", "R", "S", "T", "U", "V", "W", "X", "Y", "Z",
     "0", "1", "2", "3", "4", "5", "6", "7", "8", "9", "_"}

ClaimDigits == {"0", "1", "2", "3", "4", "5", "6", "7", "8", "9"}

\* s matches [A-Za-z_][A-Za-z0-9_]*
WellFormedName(s) ==
    /\ Len(s) >= 1
    /\ s[1] \in ClaimWordChars \ ClaimDigits
    /\ \A i \in 1..Len(s) : s[i] \in ClaimWordChars

\* C1: once _validate_schema has run on s, it has returned s unchanged exactly
\* when s is non-empty, starts with an ASCII letter or underscore and holds only
\* [A-Za-z0-9_]; for every other s it has raised ValueError.  "memos",
\* "_private" and "schema_1" are accepted.
C1_ValidateSchemaContract ==
    pg_pc # "entered" =>
        /\ WellFormedName(pg_arg) =>
                pg_exc.type # "ValueError" /\ pg_schema = pg_arg
        /\ ~WellFormedName(pg_arg) =>
                pg_exc.type = "ValueError" /\ pg_pc = "raised"
        /\ pg_arg \in {memos, private, schema_1} => pg_exc.type # "ValueError"

C1_Witness == pg_pc = "validated" /\ pg_arg = schema_1 /\ pg_schema = schema_1

\* C2: when the schema name fails validation, __init__ has raised ValueError
\* with no engine created, no connection opened, no SQL executed (no CREATE
\* SCHEMA, no table creation, no root-user initialization) and the database
\* is as it was.
C2_InvalidSchemaNoIO ==
    (pg_pc # "entered" /\ ~WellFormedName(pg_arg)) =>
        /\ pg_pc = "raised"
        /\ pg_exc.type = "ValueError"
        /\ io = <<>>
        /\ pg_self = NoSelf
        /\ db = db0

C2_Witness ==
    /\ pg_pc = "raised"
    /\ pg_exc.type = "ValueError"
    /\ pg_arg = <<"1", "a">>
    /\ db0 = PopulatedDb

(***************************************************************************)
(* The vendor wrappers are idle in the Postgres specification              *)
(***************************************************************************)
LlmIdle ==
    /\ method = "none"
    /\ config = None
    /\ env = <<>>
    /\ llm_pc = "idle"
    /\ requests = <<>>
    /\ replies = <<>>
    /\ outcome = Pending
    /\ consumed = <<>>
    /\ output = <<>>
    /\ reasoning_started = FALSE

\* No factory call is in progress
NoFactoryResult == [kind |-> "pending"]

NoConfigFactory == [kind |-> "none"]

FIdle ==
    /\ f_pc = "idle"
    /\ f_kind = "none"
    /\ f_arg = <<>>
    /\ f_env = <<>>
    /\ cf = NoConfigFactory
    /\ f_reads = {}
    /\ f_result = NoFactoryResult

InitPg == PgInit /\ LlmIdle /\ FIdle

NextPg == PgNext /\ UNCHANGED <<llmVars, fVars>>

SpecPg == InitPg /\ [][NextPg]_vars

InitLife == PgLifeInit /\ LlmIdle /\ FIdle

NextLife == PgLifeNext /\ UNCHANGED <<llmVars, fVars>>

SpecLife == InitLife /\ [][NextLife]_vars

(***************************************************************************)
(* Claims about the root user, cubes and repeated start-up (under SpecLife)*)
(***************************************************************************)
RootUsers(d, s) == {u \in UsersOf(d, s) : u.role = "ROOT"}

C14_CreateCubeRoundTrip ==
    (pg_call.op = "create_cube" /\ get_user(db, pg_schema, pg_call.owner) # {}) =>
        /\ pg_call.ret # None
        /\ get_cube(db, pg_schema, pg_call.ret[1]) =
              {[schema |-> pg_schema, cube_id |-> pg_call.ret[1],
                cube_name |-> pg_call.name, owner_id |-> pg_call.owner]}
        /\ validate_user_cube_access(db, pg_schema, pg_call.owner, pg_call.ret[1])

C14_Witness ==
    /\ pg_call.op = "create_cube"
    /\ pg_call.owner \in UserIdPool
    /\ pg_call.ret # None
    /\ \E u \in CreatedUsers(db) : u.user_id = pg_call.owner /\ u.role = "ADMIN"
    /\ validate_user_cube_access(db, pg_schema, pg_call.owner, pg_call.ret[1])

\* the schema, the tables and the root user are there
Established(d, s) ==
    /\ s \in d.schemas
    /\ s \in d.tables
    /\ get_user(d, s, RootUserId) # {}

\* C15: a start-up against a database where the schema, the tables and the root
\* user already exist fails only if the driver fails, and leaves the schema,
\* the tables and all users and cubes as they were, with a single root user.
C15_StartupIdempotent ==
    (pg_call = NoCall /\ Established(db0, pg_arg)) =>
        /\ db = db0
        /\ pg_exc.type \in {"none", "OperationalError"}
        /\ Cardinality(RootUsers(db, pg_arg)) = 1

C15_Witness ==
    /\ pg_starts = 2
    /\ pg_pc = "initialized"
    /\ pg_call = NoCall
    /\ CreatedUsers(db0) # {}
    /\ CreatedCubes(db0) # {}
    /\ db = db0

(***************************************************************************)
(* memos/llms/openai.py and memos/embedders/universal_api.py               *)
(***************************************************************************)
MaxChunks == 3

gpt_5           == <<"g", "p", "t", "-", "5">>
gpt_5_preview   == <<"g", "p", "t", "-", "5", "-", "p", "r", "e", "v", "i", "e", "w">>
gpt_5_padded    == <<" ", "g", "p", "t", "-", "5", " ">>
gpt_5_mini_pad  == <<" ", "g", "p", "t", "-", "5", "-", "m", "i", "n", "i", " ">>
gpt_4o          == <<"g", "p", "t", "-", "4", "o">>
gpt_4o_mini     == <<"g", "p", "t", "-", "4", "o", "-", "m", "i", "n", "i">>
o3              == <<"o", "3">>
embed_small     == <<"e", "m", "b", "-", "s", " ">>
text_embedding_3_large ==
    <<"t", "e", "x", "t", "-", "e", "m", "b", "e", "d", "d", "i", "n", "g", "-",
      "3", "-", "l", "a", "r", "g", "e">>

invalid_model   == <<"i", "n", "v", "a", "l", "i", "d", " ", "m", "o", "d", "e", "l">>
model_not_found == <<"m", "o", "d", "e", "l", "_", "n", "o", "t", "_", "f", "o", "u", "n", "d">>

\* messages of the errors the vendor SDK raises
msg_Invalid_model == <<"I", "n", "v", "a", "l", "i", "d", " ", "m", "o", "d", "e", "l">>
msg_404_not_found ==
    <<"4", "0", "4", " ", "m", "o", "d", "e", "l", "_", "n", "o", "t", "_", "f", "o", "u", "n", "d">>
msg_invalid_underscore ==
    <<"i", "n", "v", "a", "l", "i", "d", "_", "m", "o", "d", "e", "l">>
msg_timeout     == <<"t", "i", "m", "e", "o", "u", "t">>

ErrorMessages == {msg_Invalid_model, msg_404_not_found, msg_invalid_underscore, msg_timeout}

\* what a vendor call does: it returns, or raises with one of the messages
VendorResults ==
    {[ok |-> TRUE, text |-> <<>>, msg |-> <<>>]}
        \cup {[ok |-> FALSE, text |-> <<>>, msg |-> m] : m \in ErrorMessages}

\* the Responses API call: raises, or returns a response whose text is empty or not
ResponsesResults ==
    {[ok |-> TRUE, text |-> <<>>, msg |-> <<>>],
     [ok |-> TRUE, text |-> <<"answer">>, msg |-> <<>>]}
        \cup {[ok |-> FALSE, text |-> <<>>, msg |-> m] : m \in {msg_404_not_found, msg_timeout}}

\* ---- configuration and environment ----
ModelNames == {gpt_5_preview, gpt_5_padded, gpt_4o}

Temperatures == {0, 1}

TopPs == {1}

MaxTokensValues == {None, Some(1024)}

MaxCompletionTokensValues == {None, Some(2048)}

\* extra_body: not a dict (None), or a dict with these keys
ExtraBodies == {[is_dict |-> FALSE, keys |-> {}], [is_dict |-> TRUE, keys |-> {"top_p", "seed"}]}

LlmEnvs ==
    {<<>>,
     [v \in {"MOS_FALLBACK_MODEL"} |-> gpt_5_mini_pad],
     [v \in {"MOS_FALLBACK_MODEL"} |-> o3]}

EmbedEnvs ==
    {<<>>,
     [v \in {"MOS_EMBED_FALLBACK_MODEL"} |-> embed_small]}

EmbedModelNames == {embed_small, text_embedding_3_large}

\* os.getenv(name, default)
getenv(e, name, default) == IF name \in DOMAIN e THEN e[name] ELSE default

\* OpenAILLM.__init__: the model name is stripped
OpenAILLM_init(c) == [c EXCEPT !.model_name_or_path = Strip(@)]

LlmConfigs ==
    {OpenAILLM_init(c) : c \in
        [model_name_or_path : ModelNames,
         temperature : Temperatures,
         top_p : TopPs,
         max_tokens : MaxTokensValues,
         max_completion_tokens : MaxCompletionTokensValues,
         extra_body : ExtraBodies,
         remove_think_prefix : BOOLEAN]}

EmbedConfigs == [provider : {"openai", "azure"}, model_name_or_path : EmbedModelNames]

\* ---- request shaping ----
\* model_name.startswith("gpt-5")
is_gpt5_family(model_name) == StartsWith(model_name, gpt_5)

\* dict.pop(k, None) for each k in ks
Pop(d, ks) == [k \in (DOMAIN d) \ ks |-> d[k]]

\* d[k] = v
Put(d, k, v) == [x \in (DOMAIN d) \cup {k} |-> IF x = k THEN v ELSE d[x]]

UNSUPPORTED_EXTRA == {"top_p", "top_logprobs", "logprobs", "logit_bias"}

\* lines 48-50 / 148-150: the dict popped is self.config.extra_body itself
SanitizeExtraBody(eb) ==
    IF eb.is_dict THEN [eb EXCEPT !.keys = @ \ UNSUPPORTED_EXTRA] ELSE eb

\* self.config after the request has been built
ConfigAfterBuild(c) ==
    IF is_gpt5_family(c.model_name_or_path)
    THEN [c EXCEPT !.extra_body = SanitizeExtraBody(@)]
    ELSE c

\* the limit is sent under max_tokens, as for the other models
WithMaxCompletionTokens_as_max_tokens(kw, c) ==
    LET max_comp == IF c.max_completion_tokens = None THEN c.max_tokens
                    ELSE c.max_completion_tokens
    IN  IF max_comp # None THEN Put(kw, "max_tokens", max_comp) ELSE kw

\* lines 53-57 / 152-156
WithMaxCompletionTokens(kw, c) ==
    LET max_comp == IF c.max_completion_tokens = None THEN c.max_tokens
                    ELSE c.max_completion_tokens
    IN  IF max_comp # None THEN Put(kw, "max_completion_tokens", max_comp) ELSE kw

\* generate, lines 35-60
GenerateKwargs(c) ==
    LET base == [k \in {"model", "messages", "extra_body", "temperature", "top_p"} |->
                    CASE k = "model" -> c.model_name_or_path
                      [] k = "messages" -> "messages"
                      [] k = "extra_body" -> c.extra_body
                      [] k = "temperature" -> c.temperature
                      [] k = "top_p" -> c.top_p]
    IN  IF is_gpt5_family(c.model_name_or_path)
        THEN WithMaxCompletionTokens(
                 Put(Pop(Put(base, "temperature", 1), {"top_p"}),
                     "extra_body", SanitizeExtraBody(c.extra_body)), c)
        ELSE Put(Put(base, "max_tokens", c.max_tokens), "top_p", c.top_p)

\* generate_stream, lines 134-158
StreamKwargs(c) ==
    LET base == [k \in {"model", "messages", "stream", "extra_body", "temperature"} |->
                    CASE k = "model" -> c.model_name_or_path
                      [] k = "messages" -> "messages"
                      [] k = "stream" -> TRUE
                      [] k = "extra_body" -> c.extra_body
                      [] k = "temperature" -> c.temperature]
    IN  IF is_gpt5_family(c.model_name_or_path)
        THEN WithMaxCompletionTokens(
                 Put(Pop(Put(base, "temperature", 1), {"top_p"}),
                     "extra_body", SanitizeExtraBody(c.extra_body)), c)
        ELSE Put(base, "max_tokens", c.max_tokens)

create_kwargs(m, c) == IF m = "generate" THEN GenerateKwargs(c) ELSE StreamKwargs(c)

\* x or y
PyOr(x, y) == IF x # None /\ x[1] # 0 THEN x ELSE y

\* lines 69-79 / 167-177
responses_kwargs(c) ==
    [k \in {"model", "input", "max_output_tokens"} |->
        CASE k = "model" -> c.model_name_or_path
          [] k = "input" -> "text_input"
          [] k = "max_output_tokens" -> PyOr(c.max_completion_tokens, c.max_tokens)]

\* the fallback model is hard-wired
fallback_model_ignores_env(e, gpt5) == gpt_4o_mini

\* lines 90 / 189 strip the variable's value, lines 103 / 203 do not
fallback_model(e, gpt5) ==
    IF gpt5 THEN Strip(getenv(e, "MOS_FALLBACK_MODEL", gpt_4o_mini))
    ELSE getenv(e, "MOS_FALLBACK_MODEL", gpt_4o_mini)

\* lines 94-100, 108-114, 193-200, 207-214
fallback_kwargs(m, c, e) ==
    LET base == [k \in {"model", "messages", "extra_body", "temperature", "max_tokens"} |->
                    CASE k = "model" -> fallback_model(e, is_gpt5_family(c.model_name_or_path))
                      [] k = "messages" -> "messages"
                      [] k = "extra_body" -> c.extra_body
                      [] k = "temperature" -> c.temperature
                      [] k = "max_tokens" -> c.max_tokens]
    IN  IF m = "generate" THEN base ELSE Put(base, "stream", TRUE)

\* any message that mentions a model counts as a model error
IsModelError_loose(msg) == Contains(Lower(msg), <<"m", "o", "d", "e", "l">>)

\* msg = str(e).lower(); "invalid model" in msg or "model_not_found" in msg
IsModelError(msg) ==
    Contains(Lower(msg), invalid_model) \/ Contains(Lower(msg), model_not_found)

Request(endpoint, kw) == [endpoint |-> endpoint, kwargs |-> kw]

LlmInit ==
    /\ method \in {"generate", "generate_stream"}
    /\ config \in LlmConfigs
    /\ env \in LlmEnvs
    /\ llm_pc = "first"
    /\ requests = <<>>
    /\ replies = <<>>
    /\ outcome = Pending
    /\ consumed = <<>>
    /\ output = <<>>
    /\ reasoning_started = FALSE

\* the gpt-5 family goes straight to the fallback model
AfterFirstError_no_responses(msg, gpt5) ==
    IF IsModelError(msg) THEN "fallback" ELSE "raise"

\* where the except clause of lines 64-120 / 162-217 leads
AfterFirstError(msg, gpt5) ==
    IF IsModelError(msg) /\ gpt5 THEN "responses"
    ELSE IF IsModelError(msg) THEN "fallback"
    ELSE "raise"

\* lines 32-66 / 130-164: build the request, call chat.completions.create
LlmFirstCall ==
    /\ method \in {"generate", "generate_stream"}
    /\ llm_pc = "first"
    /\ requests' = Append(requests, Request("chat.completions", create_kwargs(method, config)))
    /\ config' = ConfigAfterBuild(config)
    /\ \E r \in VendorResults :
        /\ replies' = Append(replies, r)
        /\ IF r.ok
           THEN /\ llm_pc' = IF method = "generate" THEN "done" ELSE "streaming"
                /\ outcome' = IF method = "generate" THEN Returned("chat.completions") ELSE outcome
           ELSE LET e == VendorError(1, r.msg)
                    to == AfterFirstError(r.msg, is_gpt5_family(config.model_name_or_path))
                IN  /\ llm_pc' = IF to = "raise" THEN "done" ELSE to
                    /\ outcome' = IF to = "raise" THEN Raised(e) ELSE outcome
    /\ UNCHANGED <<method, env, consumed, output, reasoning_started>>

\* generate_stream returns whatever text came back, as generate does
AfterResponses_like_generate(m, r) ==
    IF ~r.ok THEN "fallback" ELSE "done"

\* where the Responses API attempt leads: lines 80-88 return whatever text came
\* back; lines 178-187 yield it only when it is non-empty
AfterResponses(m, r) ==
    IF ~r.ok THEN "fallback"
    ELSE IF m = "generate" THEN "done"
    ELSE IF r.text # <<>> THEN "done"
    ELSE "fallback"

\* lines 67-88 / 165-187: the Responses API attempt for the gpt-5 family
LlmResponsesCall ==
    /\ llm_pc = "responses"
    /\ requests' = Append(requests, Request("responses", responses_kwargs(config)))
    /\ \E r \in ResponsesResults :
        /\ replies' = Append(replies, r)
        /\ llm_pc' = AfterResponses(method, r)
        /\ outcome' = IF AfterResponses(method, r) = "done"
                      THEN Returned("responses") ELSE outcome
        /\ output' = IF method = "generate_stream" /\ AfterResponses(method, r) = "done"
                     THEN Append(output, [src |-> "responses", text |-> r.text, chunk |-> 0])
                     ELSE output
    /\ UNCHANGED <<method, config, env, consumed, reasoning_started>>

\* a model error from the fallback model is answered with another attempt
LlmFallbackCall_retries ==
    /\ llm_pc = "fallback"
    /\ requests' = Append(requests, Request("chat.completions",
                                            fallback_kwargs(method, config, env)))
    /\ \E r \in VendorResults :
        /\ replies' = Append(replies, r)
        /\ IF r.ok
           THEN /\ llm_pc' = IF method = "generate" THEN "done" ELSE "streaming"
                /\ outcome' = IF method = "generate" THEN Returned("chat.completions") ELSE outcome
           ELSE LET e == VendorError(Len(requests) + 1, r.msg)
                IN  /\ llm_pc' = IF IsModelError(r.msg) THEN "fallback" ELSE "done"
                    /\ outcome' = IF IsModelError(r.msg) THEN outcome ELSE Raised(e)
    /\ UNCHANGED <<method, config, env, consumed, output, reasoning_started>>

\* lines 89-101, 102-118 / 188-201, 202-215: the request to the fallback model
LlmFallbackCall ==
    /\ llm_pc = "fallback"
    /\ requests' = Append(requests, Request("chat.completions",
                                            fallback_kwargs(method, config, env)))
    /\ \E r \in VendorResults :
        /\ replies' = Append(replies, r)
        /\ IF r.ok
           THEN /\ llm_pc' = IF method = "generate" THEN "done" ELSE "streaming"
                /\ outcome' = IF method = "generate" THEN Returned("chat.completions") ELSE outcome
           ELSE LET e == VendorError(Len(requests) + 1, r.msg)
                IN  /\ llm_pc' = "done"
                    /\ outcome' = Raised(e)
    /\ UNCHANGED <<method, config, env, consumed, output, reasoning_started>>

\* ---- streaming, lines 219-238 ----
\* chunk.choices[0].delta: each attribute is absent / None, or a text
DeltaKinds == {"reasoning", "content", "both", "empty"}

Delta(kind, n) ==
    [reasoning_content |-> CASE kind \in {"reasoning", "both"} -> Some(<<"r", n>>)
                             [] kind = "empty" -> Some(<<>>)
                             [] OTHER -> None,
     content |-> CASE kind \in {"content", "both"} -> Some(<<"c", n>>)
                   [] kind = "empty" -> Some(<<>>)
                   [] OTHER -> None]

\* hasattr(delta, a) and delta.a
Truthy(x) == x # None /\ x[1] # <<>>

Marker(text) == [src |-> "wrapper", text |-> <<text>>, chunk |-> 0]

Text(src, text, n) == [src |-> src, text |-> text, chunk |-> n]

\* the markers are yielded whatever remove_think_prefix says
LoopBody_always_marks(delta, n, started, remove_think_prefix) ==
    IF Truthy(delta.reasoning_content)
    THEN [yielded |-> (IF ~started THEN <<Marker("<think>")>> ELSE <<>>)
                        \o <<Text("reasoning_content", delta.reasoning_content[1], n)>>,
          started |-> TRUE]
    ELSE IF Truthy(delta.content)
    THEN [yielded |-> (IF started THEN <<Marker("</think>")>> ELSE <<>>)
                        \o <<Text("content", delta.content[1], n)>>,
          started |-> FALSE]
    ELSE [yielded |-> <<>>, started |-> started]

\* one turn of the for loop: the elements yielded and the new reasoning_started
LoopBody(delta, n, started, remove_think_prefix) ==
    IF Truthy(delta.reasoning_content)
    THEN [yielded |-> (IF ~started /\ ~remove_think_prefix THEN <<Marker("<think>")>> ELSE <<>>)
                        \o <<Text("reasoning_content", delta.reasoning_content[1], n)>>,
          started |-> IF ~started /\ ~remove_think_prefix THEN TRUE ELSE started]
    ELSE IF Truthy(delta.content)
    THEN [yielded |-> (IF started /\ ~remove_think_prefix THEN <<Marker("</think>")>> ELSE <<>>)
                        \o <<Text("content", delta.content[1], n)>>,
          started |-> IF started /\ ~remove_think_prefix THEN FALSE ELSE started]
    ELSE [yielded |-> <<>>, started |-> started]

\* the block left open at the end of the stream is not closed
LoopExit_no_close(started, remove_think_prefix) == <<>>

\* lines 236-238
LoopExit(started, remove_think_prefix) ==
    IF started /\ ~remove_think_prefix THEN <<Marker("</think>")>> ELSE <<>>

\* the SDK iterator delivers one more chunk
StreamChunk ==
    /\ llm_pc = "streaming"
    /\ Len(consumed) < MaxChunks
    /\ \E kind \in DeltaKinds :
        LET n == Len(consumed) + 1
            delta == Delta(kind, n)
            step == LoopBody(delta, n, reasoning_started, config.remove_think_prefix)
        IN  /\ consumed' = Append(consumed, delta)
            /\ output' = output \o step.yielded
            /\ reasoning_started' = step.started
    /\ UNCHANGED <<method, config, env, llm_pc, requests, replies, outcome>>

\* the SDK iterator is exhausted
StreamEnd ==
    /\ llm_pc = "streaming"
    /\ output' = output \o LoopExit(reasoning_started, config.remove_think_prefix)
    /\ llm_pc' = "done"
    /\ outcome' = Returned("chat.completions")
    /\ UNCHANGED <<method, config, env, requests, replies, consumed, reasoning_started>>

\* the SDK iterator raises (connection lost, or a chunk without choices)
StreamRaise ==
    /\ llm_pc = "streaming"
    /\ llm_pc' = "done"
    /\ outcome' = Raised(VendorError(Len(requests), msg_timeout))
    /\ UNCHANGED <<method, config, env, requests, replies, consumed, output, reasoning_started>>

\* ---- UniversalAPIEmbedder.embed ----
embed_kwargs(model) ==
    [k \in {"model", "input"} |-> IF k = "model" THEN model ELSE "texts"]

EmbedInit ==
    /\ method = "embed"
    /\ config \in EmbedConfigs
    /\ env \in EmbedEnvs
    /\ llm_pc = "first"
    /\ requests = <<>>
    /\ replies = <<>>
    /\ outcome = Pending
    /\ consumed = <<>>
    /\ output = <<>>
    /\ reasoning_started = FALSE

\* the except clause re-raises every error
AfterEmbedError_never(msg) == "raise"

\* where the except clause of lines 38-53 leads
AfterEmbedError(msg) == IF IsModelError(msg) THEN "fallback" ELSE "raise"

\* lines 30-40
EmbedFirstCall ==
    /\ method = "embed"
    /\ llm_pc = "first"
    /\ requests' = Append(requests,
                          Request("embeddings", embed_kwargs(Strip(config.model_name_or_path))))
    /\ \E r \in VendorResults :
        /\ replies' = Append(replies, r)
        /\ IF r.ok
           THEN /\ llm_pc' = "done"
                /\ outcome' = Returned("embeddings")
           ELSE LET e == VendorError(1, r.msg)
                IN  /\ llm_pc' = IF AfterEmbedError(r.msg) = "raise" THEN "done" ELSE "embed_fallback"
                    /\ outcome' = IF AfterEmbedError(r.msg) = "raise" THEN Raised(e) ELSE outcome
    /\ UNCHANGED <<method, config, env, consumed, output, reasoning_started>>

\* lines 41-51
EmbedFallbackCall ==
    /\ llm_pc = "embed_fallback"
    /\ requests' = Append(requests,
            Request("embeddings",
                    embed_kwargs(Strip(getenv(env, "MOS_EMBED_FALLBACK_MODEL",
                                              text_embedding_3_large)))))
    /\ \E r \in VendorResults :
        /\ replies' = Append(replies, r)
        /\ IF r.ok
           THEN /\ llm_pc' = "done"
                /\ outcome' = Returned("embeddings")
           ELSE LET e == VendorError(2, r.msg)
                IN  /\ llm_pc' = "done"
                    /\ outcome' = Raised(e)
    /\ UNCHANGED <<method, config, env, consumed, output, reasoning_started>>

LlmNext ==
    \/ LlmFirstCall
    \/ LlmResponsesCall
    \/ LlmFallbackCall
    \/ StreamChunk
    \/ StreamEnd
    \/ StreamRaise
    \/ EmbedFirstCall
    \/ EmbedFallbackCall

\* The Postgres manager is idle in the vendor-wrapper specification
PgIdle ==
    /\ pg_pc = "idle"
    /\ pg_arg = <<>>
    /\ pg_schema = <<>>
    /\ pg_exc = NoExc
    /\ pg_self = NoSelf
    /\ io = <<>>
    /\ db = EmptyDb
    /\ db0 = EmptyDb
    /\ pg_starts = 0
    /\ pg_call = NoCall

Init == (LlmInit \/ EmbedInit) /\ PgIdle /\ FIdle

Next == LlmNext /\ UNCHANGED <<pgVars, fVars>>

Spec == Init /\ [][Next]_vars

(***************************************************************************)
(* Claims about the vendor wrappers (under Spec)                           *)
(***************************************************************************)
IsLlmCall == method \in {"generate", "generate_stream"}

\* the request body carries the key: as a keyword argument, or merged in from extra_body
BodyHas(req, key) ==
    \/ key \in DOMAIN req.kwargs
    \/ /\ "extra_body" \in DOMAIN req.kwargs
       /\ req.kwargs["extra_body"].is_dict
       /\ key \in req.kwargs["extra_body"].keys

Gpt5Configured == StartsWith(config.model_name_or_path, gpt_5)

\* positions of the chat-completion requests after the first one
FallbackRequests == {i \in 2..Len(requests) : requests[i].endpoint = "chat.completions"}

ResponsesRequests == {i \in 1..Len(requests) : requests[i].endpoint = "responses"}

\* the first vendor call raised, and its lowercased message names a model error or not
FirstCallFailed == Len(replies) >= 1 /\ ~replies[1].ok

FirstErrorUnmatched ==
    /\ FirstCallFailed
    /\ ~Contains(Lower(replies[1].msg), invalid_model)
    /\ ~Contains(Lower(replies[1].msg), model_not_found)

\* C3 as stated: for a gpt-5 model name the first chat-completion request has
\* no top_p, has max_completion_tokens, has no max_tokens and has temperature 1,
\* for every configured temperature, top_p, max_tokens and max_completion_tokens.
C3_Original ==
    (IsLlmCall /\ Gpt5Configured /\ Len(requests) >= 1) =>
        /\ ~BodyHas(requests[1], "top_p")
        /\ "max_completion_tokens" \in DOMAIN requests[1].kwargs
        /\ "max_tokens" \notin DOMAIN requests[1].kwargs
        /\ requests[1].kwargs["temperature"] = 1

\* C3 amended: for a gpt-5 model name the first chat-completion request has no
\* top_p, no max_tokens and temperature 1; it has max_completion_tokens exactly
\* when max_completion_tokens or max_tokens is configured (not None), with the
\* value of max_completion_tokens if configured and of max_tokens otherwise.
C3_Gpt5FirstRequest ==
    (IsLlmCall /\ Gpt5Configured /\ Len(requests) >= 1) =>
        LET kw == requests[1].kwargs
            configured == config.max_completion_tokens # None \/ config.max_tokens # None
        IN  /\ requests[1].endpoint = "chat.completions"
            /\ ~BodyHas(requests[1], "top_p")
            /\ "max_tokens" \notin DOMAIN kw
            /\ kw["temperature"] = 1
            /\ ("max_completion_tokens" \in DOMAIN kw) <=> configured
            /\ configured =>
                 kw["max_completion_tokens"] =
                    IF config.max_completion_tokens # None
                    THEN config.max_completion_tokens ELSE config.max_tokens

C3_Witness ==
    /\ method = "generate_stream"
    /\ config.model_name_or_path = gpt_5_preview
    /\ config.temperature = 0
    /\ config.max_completion_tokens = None
    /\ config.max_tokens = Some(1024)
    /\ Len(requests) = 1
    /\ requests[1].kwargs["max_completion_tokens"] = Some(1024)

\* C4: every chat-completion request of one call whose model name begins with
\* "gpt-5" has temperature 1, no top_p and no max_tokens -- the first request
\* and the fallback-model request alike.
C4_EveryGpt5RequestConstrained ==
    IsLlmCall =>
        \A i \in 1..Len(requests) :
            (requests[i].endpoint = "chat.completions"
                /\ StartsWith(requests[i].kwargs["model"], gpt_5)) =>
                    /\ requests[i].kwargs["temperature"] = 1
                    /\ ~BodyHas(requests[i], "top_p")
                    /\ "max_tokens" \notin DOMAIN requests[i].kwargs

\* C5 as stated: whenever the first chat-completion call raises an error whose
\* message contains "model_not_found", the call ends having made exactly one
\* more chat-completion request, whose model is the value of MOS_FALLBACK_MODEL
\* (default "gpt-4o-mini"), whatever the configured model name.
C5_Original ==
    (IsLlmCall /\ llm_pc \in {"done", "streaming"} /\ FirstCallFailed
        /\ Contains(replies[1].msg, model_not_found)) =>
            /\ Cardinality(FallbackRequests) = 1
            /\ \A i \in FallbackRequests :
                 requests[i].kwargs["model"] = getenv(env, "MOS_FALLBACK_MODEL", gpt_4o_mini)

\* the Responses API attempt raised, or (generate_stream only) returned empty text
ResponsesDidNotDeliver(i) ==
    \/ ~replies[i].ok
    \/ method = "generate_stream" /\ replies[i].text = <<>>

\* C5 amended: whenever the first chat-completion call raises an error whose
\* message contains "model_not_found": for a model outside the gpt-5 family the
\* wrapper makes exactly one more request, a chat-completion request whose model
\* is the value of MOS_FALLBACK_MODEL (default "gpt-4o-mini"); for a gpt-5
\* family model the second request goes to the responses endpoint, and exactly
\* one fallback chat-completion request follows, with the whitespace-stripped
\* value of MOS_FALLBACK_MODEL as model, when that attempt raised or (in
\* generate_stream) returned empty text, and none otherwise.
C5_FallbackOnModelNotFound ==
    (IsLlmCall /\ llm_pc \in {"done", "streaming"} /\ FirstCallFailed
        /\ Contains(replies[1].msg, model_not_found)) =>
            IF ~Gpt5Configured
            THEN /\ Len(requests) = 2
                 /\ requests[2].endpoint = "chat.completions"
                 /\ requests[2].kwargs["model"] =
                        getenv(env, "MOS_FALLBACK_MODEL", gpt_4o_mini)
            ELSE /\ requests[2].endpoint = "responses"
                 /\ IF ResponsesDidNotDeliver(2)
                    THEN /\ Len(requests) = 3
                         /\ requests[3].endpoint = "chat.completions"
                         /\ requests[3].kwargs["model"] =
                                Strip(getenv(env, "MOS_FALLBACK_MODEL", gpt_4o_mini))
                    ELSE Len(requests) = 2

C5_Witness ==
    /\ method = "generate"
    /\ llm_pc = "done"
    /\ Gpt5Configured
    /\ Len(requests) = 3
    /\ replies[1].msg = msg_404_not_found
    /\ "MOS_FALLBACK_MODEL" \in DOMAIN env
    /\ env["MOS_FALLBACK_MODEL"] = gpt_5_mini_pad
    /\ requests[3].kwargs["model"] = Strip(gpt_5_mini_pad)

\* C6: for a gpt-5 family model whose first call failed with an invalid-model
\* error the second request is the responses request with the original model
\* name, a fallback-model request comes only third and only after the responses
\* attempt did not deliver a result; outside the gpt-5 family the responses
\* endpoint is never called.
C6_ResponsesBeforeFallback ==
    IsLlmCall =>
        /\ ~Gpt5Configured => ResponsesRequests = {}
        /\ Gpt5Configured =>
            /\ ResponsesRequests \subseteq {2}
            /\ \A i \in ResponsesRequests :
                 requests[i].kwargs["model"] = config.model_name_or_path
            /\ \A i \in FallbackRequests :
                 /\ i = 3
                 /\ requests[2].endpoint = "responses"
                 /\ Len(replies) >= 2
                 /\ (~replies[2].ok \/ replies[2].text = <<>>)
            /\ (FirstCallFailed /\ ~FirstErrorUnmatched) =>
                 (llm_pc = "responses" \/ 2 \in ResponsesRequests)

C6_Witness ==
    /\ IsLlmCall
    /\ Gpt5Configured
    /\ Len(requests) = 3
    /\ requests[2].endpoint = "responses"
    /\ requests[3].endpoint = "chat.completions"
    /\ replies[2].ok
    /\ replies[2].text = <<>>

\* C7: when the first vendor call of generate, generate_stream or embed raises
\* an error whose lowercased message contains neither "invalid model" nor
\* "model_not_found", that same error reaches the caller and no further vendor
\* request is made.
C7_UnmatchedErrorPropagates ==
    (method # "none" /\ FirstErrorUnmatched) =>
        /\ llm_pc = "done"
        /\ Len(requests) = 1
        /\ outcome = Raised(VendorError(1, replies[1].msg))

C7_Witness ==
    /\ method = "embed"
    /\ FirstCallFailed
    /\ replies[1].msg = msg_invalid_underscore
    /\ outcome.kind = "raised"

\* ---- streaming ----
WrapperMarkers == SelectSeq(output, LAMBDA el : el.src = "wrapper")

IsOpen(el) == el.src = "wrapper" /\ el.text = <<"<think>">>

IsClose(el) == el.src = "wrapper" /\ el.text = <<"</think>">>

\* the SDK iterator was pulled until it was exhausted
Exhausted == llm_pc = "done" /\ outcome = Returned("chat.completions")

IsReasoningOnly(delta) == Truthy(delta.reasoning_content) /\ ~Truthy(delta.content)

\* C8: with remove_think_prefix false the markers of the output alternate
\* "<think>", "</think>", "<think>", ... starting with "<think>"; once the
\* stream is exhausted every "<think>" has its "</think>", and a stream that
\* carried only reasoning content ends with "</think>".
C8_MarkersAlternate ==
    (method = "generate_stream" /\ ~config.remove_think_prefix) =>
        /\ \A i \in 1..Len(WrapperMarkers) :
             IF i % 2 = 1 THEN IsOpen(WrapperMarkers[i]) ELSE IsClose(WrapperMarkers[i])
        /\ llm_pc = "streaming" => (reasoning_started <=> Len(WrapperMarkers) % 2 = 1)
        /\ Exhausted => Len(WrapperMarkers) % 2 = 0
        /\ (Exhausted /\ consumed # <<>>
                /\ \A i \in 1..Len(consumed) : IsReasoningOnly(consumed[i])) =>
             IsClose(output[Len(output)])

C8_Witness ==
    /\ method = "generate_stream"
    /\ ~config.remove_think_prefix
    /\ Exhausted
    /\ Len(consumed) = 2
    /\ \A i \in 1..Len(consumed) : IsReasoningOnly(consumed[i])
    /\ Len(output) = 4
    /\ IsClose(output[4])

\* C9: with remove_think_prefix true no element of the output is a marker added
\* by the wrapper; with the flag false every maximal run of reasoning texts in
\* the output is preceded by "<think>" and, once the stream has moved on or is
\* exhausted, followed by "</think>".
C9_MarkersOnlyWhenKept ==
    method = "generate_stream" =>
        /\ config.remove_think_prefix => WrapperMarkers = <<>>
        /\ ~config.remove_think_prefix =>
            \A i \in 1..Len(output) :
                output[i].src = "reasoning_content" =>
                    /\ i > 1
                    /\ IsOpen(output[i - 1]) \/ output[i - 1].src = "reasoning_content"
                    /\ i < Len(output) =>
                         IsClose(output[i + 1]) \/ output[i + 1].src = "reasoning_content"
                    /\ Exhausted => i < Len(output)
        /\ \A i \in 1..Len(output) :
                /\ IsOpen(output[i]) =>
                     i < Len(output) /\ output[i + 1].src = "reasoning_content"
                /\ IsClose(output[i]) =>
                     i > 1 /\ output[i - 1].src = "reasoning_content"

C9_Witness ==
    /\ method = "generate_stream"
    /\ ~config.remove_think_prefix
    /\ Exhausted
    /\ Len(consumed) = 3
    /\ IsReasoningOnly(consumed[1])
    /\ Truthy(consumed[2].content) /\ ~Truthy(consumed[2].reasoning_content)
    /\ IsReasoningOnly(consumed[3])
    /\ Len(WrapperMarkers) = 4

\* every non-empty text carried by the chunks, in arrival order
RECURSIVE CarriedTexts(_)
CarriedTexts(chunks) ==
    IF chunks = <<>> THEN <<>>
    ELSE LET n == Len(chunks)
             d == chunks[n]
         IN  CarriedTexts(SubSeq(chunks, 1, n - 1))
                \o (IF Truthy(d.reasoning_content) THEN <<d.reasoning_content[1]>> ELSE <<>>)
                \o (IF Truthy(d.content) THEN <<d.content[1]>> ELSE <<>>)

OutputTexts ==
    LET kept == SelectSeq(output, LAMBDA el : el.src # "wrapper")
    IN  [i \in 1..Len(kept) |-> kept[i].text]

\* C10: the output of generate_stream without the wrapper's markers is exactly
\* the sequence of the non-empty texts (reasoning_content and content) of the
\* chunks pulled so far, in arrival order, a chunk carrying both included.
C10_NoTextDropped ==
    (method = "generate_stream" /\ outcome.via # "responses") =>
        OutputTexts = CarriedTexts(consumed)

\* ---- fallback chains ----
\* the first vendor call raised an error the except clause takes for a model error
FirstErrorMatched ==
    /\ FirstCallFailed
    /\ \/ Contains(Lower(replies[1].msg), invalid_model)
       \/ Contains(Lower(replies[1].msg), model_not_found)

\* C16: embed has one layer of fallback: after a first embeddings call that
\* failed with an "invalid model" / "model_not_found" error it makes exactly one
\* more embeddings call, with the (whitespace-stripped) value of
\* MOS_EMBED_FALLBACK_MODEL, default "text-embedding-3-large", as model and the
\* same input; when that call fails its error reaches the caller and there is
\* no third call.  Without such a first error there is no second call.
C16_EmbedOneFallback ==
    method = "embed" =>
        /\ Len(requests) <= 2
        /\ \A i \in 1..Len(requests) : requests[i].endpoint = "embeddings"
        /\ Len(requests) = 2 => FirstErrorMatched
        /\ FirstErrorMatched =>
            /\ llm_pc \in {"embed_fallback", "done"}
            /\ llm_pc = "done" =>
                /\ Len(requests) = 2
                /\ requests[2].kwargs["model"] =
                       Strip(getenv(env, "MOS_EMBED_FALLBACK_MODEL", text_embedding_3_large))
                /\ requests[2].kwargs["input"] = requests[1].kwargs["input"]
                /\ outcome = IF replies[2].ok THEN Returned("embeddings")
                             ELSE Raised(VendorError(2, replies[2].msg))

C16_Witness ==
    /\ method = "embed"
    /\ llm_pc = "done"
    /\ Len(requests) = 2
    /\ "MOS_EMBED_FALLBACK_MODEL" \notin DOMAIN env
    /\ requests[2].kwargs["model"] = text_embedding_3_large
    /\ replies[1].msg = msg_404_not_found
    /\ replies[2].msg = msg_Invalid_model
    /\ outcome = Raised(VendorError(2, msg_Invalid_model))

\* C18: one call of generate / generate_stream makes at most 3 vendor requests
\* for a gpt-5 family model and at most 2 for any other model, at most one of
\* them to the fallback model; when the fallback-model request raises, the call
\* ends with that error and makes no further request, whatever the message.
C18_FallbackChainBounded ==
    IsLlmCall =>
        /\ Len(requests) <= (IF Gpt5Configured THEN 3 ELSE 2)
        /\ Cardinality(FallbackRequests) <= 1
        /\ \A i \in FallbackRequests :
             ~replies[i].ok =>
                /\ llm_pc = "done"
                /\ Len(requests) = i
                /\ outcome = Raised(VendorError(i, replies[i].msg))

C18_Witness ==
    /\ method = "generate"
    /\ Gpt5Configured
    /\ llm_pc = "done"
    /\ Len(requests) = 3
    /\ requests[3].endpoint = "chat.completions"
    /\ replies[3].msg = msg_404_not_found
    /\ outcome = Raised(VendorError(3, msg_404_not_found))

\* the text the streaming loop yields for a chunk, if any
ChunkYield(delta) ==
    IF Truthy(delta.reasoning_content) THEN <<delta.reasoning_content[1]>>
    ELSE IF Truthy(delta.content) THEN <<delta.content[1]>>
    ELSE <<>>

RECURSIVE ChunkYields(_)
ChunkYields(chunks) ==
    IF chunks = <<>> THEN <<>>
    ELSE ChunkYields(SubSeq(chunks, 1, Len(chunks) - 1)) \o ChunkYield(chunks[Len(chunks)])

sqlite      == <<"s", "q", "l", "i", "t", "e">>
mysql       == <<"m", "y", "s", "q", "l">>
postgres    == <<"p", "o", "s", "t", "g", "r", "e", "s">>
MySQL_mixed == <<"M", "y", "S", "Q", "L">>
oracle      == <<"o", "r", "a", "c", "l", "e">>

\* ---- configs/mem_user.py ----
\* a config class is the record of its fields' defaults, under the names
\* model_dump(by_alias=True) gives them
SQLiteUserManagerConfig == [user_id |-> "root", db_path |-> None]

MySQLUserManagerConfig ==
    [user_id |-> "root", host |-> "localhost", port |-> 3306, username |-> "root",
     password |-> "", database |-> "memos_users", charset |-> "utf8mb4"]

PostgresUserManagerConfig ==
    [user_id |-> "root", host |-> "localhost", port |-> 5432, username |-> "postgres",
     password |-> "", database |-> "memos_users", schema |-> "memos", sslmode |-> None]

\* UserManagerConfigFactory.backend_to_class
ConfigClasses ==
    (sqlite :> "SQLiteUserManagerConfig") @@ (mysql :> "MySQLUserManagerConfig")
        @@ (postgres :> "PostgresUserManagerConfig")

ClassDefaults(cls) ==
    CASE cls = "SQLiteUserManagerConfig" -> SQLiteUserManagerConfig
      [] cls = "MySQLUserManagerConfig" -> MySQLUserManagerConfig
      [] cls = "PostgresUserManagerConfig" -> PostgresUserManagerConfig

\* the keyword argument that populates field k: its alias, or (populate_by_name,
\* line 37) the attribute name schema_
Given(kw, k) ==
    IF k \in DOMAIN kw THEN Some(kw[k])
    ELSE IF k = "schema" /\ "schema_" \in DOMAIN kw THEN Some(kw["schema_"])
    ELSE None

\* config_class(**kw): the defaults, overridden by the keyword arguments
config_cls(cls, kw) ==
    [cls |-> cls,
     fields |-> [k \in DOMAIN ClassDefaults(cls) |->
                    IF Given(kw, k) # None THEN Given(kw, k)[1] ELSE ClassDefaults(cls)[k]]]

\* config.model_dump(by_alias=True)
model_dump(c) == c.fields

\* a backend is accepted whatever its case
validate_backend_case_blind(backend) == Lower(backend) \in DOMAIN ConfigClasses

\* validate_backend, lines 74-79: TRUE when the backend passes
validate_backend(backend) == backend \in DOMAIN ConfigClasses

ValidationError == [type |-> "ValidationError", message |-> "Unsupported user manager backend"]

KeyError == [type |-> "KeyError", message |-> "backend"]

\* UserManagerConfigFactory(backend=..., config=...): field default, field
\* validator, then the model validator instantiate_config
UserManagerConfigFactory(a) ==
    LET backend == IF a.backend = None THEN sqlite ELSE a.backend[1]
    IN  IF ~validate_backend(backend) THEN [kind |-> "error", exc |-> ValidationError]
        ELSE IF backend \notin DOMAIN ConfigClasses THEN [kind |-> "error", exc |-> KeyError]
        ELSE [kind |-> "object", backend |-> backend,
              config |-> config_cls(ConfigClasses[backend], a.config)]

\* ---- the environment ----
\* os.getenv(name)
os_getenv(e, name) == IF name \in DOMAIN e THEN Some(e[name]) ELSE None

\* not x, for x = os.getenv(name)
Falsy(x) == x = None \/ x[1] = <<>>

\* a or b or ... or "": the value, and the variables read before the chain stops
RECURSIVE OrChain(_, _)
OrChain(e, names) ==
    IF names = <<>> THEN [value |-> <<>>, reads |-> {}]
    ELSE LET v == os_getenv(e, Head(names))
             rest == OrChain(e, Tail(names))
         IN  IF ~Falsy(v) THEN [value |-> v[1], reads |-> {Head(names)}]
             ELSE [value |-> rest.value, reads |-> rest.reads \cup {Head(names)}]

BackendVariables(kind) ==
    IF kind = "persistent"
    THEN <<"MOS_PERSISTENT_USER_MANAGER", "MOS_USER_MANAGER", "MOS_USER_MANAGER_BACKEND">>
    ELSE <<"MOS_USER_MANAGER", "MOS_USER_MANAGER_BACKEND">>

\* the value is compared as written
env_backend_as_written(kind, e) == OrChain(e, BackendVariables(kind))

\* factory.py lines 42-44, persistent_factory.py lines 67-72
env_backend(kind, e) ==
    LET c == OrChain(e, BackendVariables(kind))
    IN  [value |-> Lower(c.value), reads |-> c.reads]

DigitValue ==
    "0" :> 0 @@ "1" :> 1 @@ "2" :> 2 @@ "3" :> 3 @@ "4" :> 4 @@
    "5" :> 5 @@ "6" :> 6 @@ "7" :> 7 @@ "8" :> 8 @@ "9" :> 9

RECURSIVE DecimalValue(_)
DecimalValue(s) ==
    IF s = <<>> THEN 0
    ELSE 10 * DecimalValue(SubSeq(s, 1, Len(s) - 1)) + DigitValue[s[Len(s)]]

\* int(s) for a str: surrounding whitespace and a sign are allowed, then digits
py_int(s) ==
    LET t == Strip(s)
        signed == t # <<>> /\ t[1] \in {"+", "-"}
        body == IF signed THEN Tail(t) ELSE t
    IN  IF body = <<>> \/ \E i \in 1..Len(body) : body[i] \notin digits
        THEN [ok |-> FALSE, value |-> 0]
        ELSE [ok |-> TRUE,
              value |-> IF signed /\ t[1] = "-" THEN 0 - DecimalValue(body)
                        ELSE DecimalValue(body)]

MySQLVariables ==
    {"MYSQL_HOST", "MYSQL_PORT", "MYSQL_USERNAME", "MYSQL_PASSWORD", "MYSQL_DATABASE",
     "MYSQL_CHARSET"}

PostgresFields == {"HOST", "PORT", "USERNAME", "PASSWORD", "DATABASE", "SCHEMA", "SSLMODE"}

PostgresVariable ==
    [mos |-> [f \in PostgresFields |->
                CASE f = "HOST" -> "MOS_POSTGRES_HOST"
                  [] f = "PORT" -> "MOS_POSTGRES_PORT"
                  [] f = "USERNAME" -> "MOS_POSTGRES_USERNAME"
                  [] f = "PASSWORD" -> "MOS_POSTGRES_PASSWORD"
                  [] f = "DATABASE" -> "MOS_POSTGRES_DATABASE"
                  [] f = "SCHEMA" -> "MOS_POSTGRES_SCHEMA"
                  [] f = "SSLMODE" -> "MOS_POSTGRES_SSLMODE"],
     plain |-> [f \in PostgresFields |->
                CASE f = "HOST" -> "POSTGRES_HOST"
                  [] f = "PORT" -> "POSTGRES_PORT"
                  [] f = "USERNAME" -> "POSTGRES_USERNAME"
                  [] f = "PASSWORD" -> "POSTGRES_PASSWORD"
                  [] f = "DATABASE" -> "POSTGRES_DATABASE"
                  [] f = "SCHEMA" -> "POSTGRES_SCHEMA"
                  [] f = "SSLMODE" -> "POSTGRES_SSLMODE"]]

PostgresVariables ==
    {PostgresVariable.mos[f] : f \in PostgresFields}
        \cup {PostgresVariable.plain[f] : f \in PostgresFields}

ConnectionVariables == MySQLVariables \cup PostgresVariables

\* os.getenv("MOS_POSTGRES_X", os.getenv("POSTGRES_X", default))
pg_getenv(e, f, default) ==
    getenv(e, PostgresVariable.mos[f], getenv(e, PostgresVariable.plain[f], default))

\* MYSQL_HOST is not consulted
load_mysql_env_config_fixed_host(user_id, e) ==
    LET port == py_int(getenv(e, "MYSQL_PORT", <<"3", "3", "0", "6">>))
    IN  IF ~port.ok
        THEN [ok |-> FALSE, kwargs |-> <<>>, reads |-> {"MYSQL_PORT"}]
        ELSE [ok |-> TRUE,
              kwargs |-> [user_id |-> user_id,
                          host |-> "localhost",
                          port |-> port.value,
                          username |-> getenv(e, "MYSQL_USERNAME", "root"),
                          password |-> getenv(e, "MYSQL_PASSWORD", ""),
                          database |-> getenv(e, "MYSQL_DATABASE", "memos_users"),
                          charset |-> getenv(e, "MYSQL_CHARSET", "utf8mb4")],
              reads |-> MySQLVariables \ {"MYSQL_HOST"}]

\* _load_mysql_env_config (factory.py lines 148-157, persistent_factory.py lines
\* 10-19): the dict is built entry by entry, so a port that does not parse
\* raises after the host has been read and before the rest is
load_mysql_env_config(user_id, e) ==
    LET port == py_int(getenv(e, "MYSQL_PORT", <<"3", "3", "0", "6">>))
    IN  IF ~port.ok
        THEN [ok |-> FALSE, kwargs |-> <<>>, reads |-> {"MYSQL_HOST", "MYSQL_PORT"}]
        ELSE [ok |-> TRUE,
              kwargs |-> [user_id |-> user_id,
                          host |-> getenv(e, "MYSQL_HOST", "localhost"),
                          port |-> port.value,
                          username |-> getenv(e, "MYSQL_USERNAME", "root"),
                          password |-> getenv(e, "MYSQL_PASSWORD", ""),
                          database |-> getenv(e, "MYSQL_DATABASE", "memos_users"),
                          charset |-> getenv(e, "MYSQL_CHARSET", "utf8mb4")],
              reads |-> MySQLVariables]

\* _load_postgres_env_config (factory.py lines 160-172, persistent_factory.py
\* lines 22-34)
load_postgres_env_config(user_id, e) ==
    LET port == py_int(pg_getenv(e, "PORT", <<"5", "4", "3", "2">>))
        sslmode == pg_getenv(e, "SSLMODE", "")
    IN  IF ~port.ok
        THEN [ok |-> FALSE, kwargs |-> <<>>,
              reads |-> {"MOS_POSTGRES_HOST", "POSTGRES_HOST",
                         "MOS_POSTGRES_PORT", "POSTGRES_PORT"}]
        ELSE [ok |-> TRUE,
              kwargs |-> [user_id |-> user_id,
                          host |-> pg_getenv(e, "HOST", "localhost"),
                          port |-> port.value,
                          username |-> pg_getenv(e, "USERNAME", "postgres"),
                          password |-> pg_getenv(e, "PASSWORD", ""),
                          database |-> pg_getenv(e, "DATABASE", "memos_users"),
                          schema |-> pg_getenv(e, "SCHEMA", "memos"),
                          sslmode |-> IF sslmode = "" THEN None ELSE Some(sslmode)],
              reads |-> PostgresVariables]

\* ---- the manager factories ----
\* UserManagerFactory.backend_to_class / PersistentUserManagerFactory.backend_to_class
backend_to_class(kind) ==
    IF kind = "persistent"
    THEN (sqlite :> "PersistentUserManager") @@ (mysql :> "MySQLPersistentUserManager")
    ELSE (sqlite :> "UserManager") @@ (mysql :> "MySQLUserManager")
            @@ (postgres :> "PostgresUserManager")

FactoryRaised(exc, reads) ==
    [kind |-> "raised", cls |-> "none", kwargs |-> <<>>, exc |-> exc, reads |-> reads]

\* user_manager_class(**config.model_dump(by_alias=True)), lines 58-61 / 86-89
construct(kind, backend, c, reads) ==
    IF backend \notin DOMAIN backend_to_class(kind) THEN FactoryRaised(KeyError, reads)
    ELSE [kind |-> "manager", cls |-> backend_to_class(kind)[backend],
          kwargs |-> model_dump(c), exc |-> NoExc, reads |-> reads]

\* the environment is followed for every backend that has a config class
UsesEnv_any_config_class(kind, eb) == eb # <<>> /\ eb \in DOMAIN ConfigClasses

\* factory.py line 46, persistent_factory.py line 74
UsesEnv(kind, eb) == eb # <<>> /\ eb \in DOMAIN backend_to_class(kind)

\* from_config, factory.py lines 35-61 and persistent_factory.py lines 60-89
from_config(kind, c, e) ==
    IF c.backend \notin DOMAIN backend_to_class(kind)
    THEN FactoryRaised(ValueError("Invalid user manager backend"), {})
    ELSE LET user_id == c.config.fields["user_id"]
             eb == env_backend(kind, e)
         IN  IF UsesEnv(kind, eb.value)
             THEN LET loaded ==
                        CASE eb.value = mysql -> load_mysql_env_config(user_id, e)
                          [] eb.value = postgres -> load_postgres_env_config(user_id, e)
                          [] OTHER -> [ok |-> TRUE, kwargs |-> [k \in {"user_id"} |-> user_id],
                                       reads |-> {}]
                  IN  IF ~loaded.ok
                      THEN FactoryRaised(ValueError("invalid literal for int()"),
                                         eb.reads \cup loaded.reads)
                      ELSE construct(kind, eb.value,
                                     config_cls(ConfigClasses[eb.value], loaded.kwargs),
                                     eb.reads \cup loaded.reads)
             ELSE construct(kind, c.backend, c.config, eb.reads)

\* ---- inputs ----
\* the arguments of UserManagerConfigFactory(...): backend omitted or given,
\* config a dict of fields of that backend's config class
ArgConfigs(b) ==
    CASE b \in {None, Some(sqlite)} ->
            {<<>>, [user_id |-> "admin", db_path |-> Some("users.db")]}
      [] b = Some(mysql) ->
            {<<>>, [user_id |-> "admin", host |-> "db.internal", port |-> 3310]}
      [] b = Some(postgres) ->
            {<<>>,
             [host |-> "pg.internal", schema |-> "tenant", sslmode |-> Some("verify-full")],
             [user_id |-> "admin", schema_ |-> "tenant"]}
      [] OTHER -> {<<>>}

ArgBackends == {None, Some(sqlite), Some(mysql), Some(postgres), Some(MySQL_mixed), Some(oracle)}

FactoryArgs == UNION {{[backend |-> b, config |-> c] : c \in ArgConfigs(b)} : b \in ArgBackends}

\* each variable is unset (None) or set to one of the values
EnvChoices ==
    [MOS_PERSISTENT_USER_MANAGER : {None, Some(mysql), Some(postgres)},
     MOS_USER_MANAGER : {None, Some(<<>>), Some(MySQL_mixed), Some(oracle)},
     MOS_USER_MANAGER_BACKEND : {None, Some(postgres), Some(sqlite)},
     MYSQL_HOST : {None, Some("mysql.env")},
     MYSQL_PORT : {None, Some(<<" ", "3", "3", "0", "7">>), Some(<<"x">>)},
     MOS_POSTGRES_HOST : {None, Some("pg.mos")},
     POSTGRES_HOST : {None, Some("pg.plain")},
     POSTGRES_SSLMODE : {None, Some(""), Some("require")}]

EnvOf(c) == [n \in {x \in DOMAIN c : c[x] # None} |-> c[n][1]]

FactoryEnvs == {EnvOf(c) : c \in EnvChoices}

\* ---- actions ----
FInit ==
    /\ f_pc = "start"
    /\ f_kind \in {"user", "persistent"}
    /\ f_arg \in FactoryArgs
    /\ f_env \in FactoryEnvs
    /\ cf = NoConfigFactory
    /\ f_reads = {}
    /\ f_result = NoFactoryResult

\* the caller builds the config factory (mem_user.py lines 60-85)
FBuildConfigFactory ==
    /\ f_pc = "start"
    /\ cf' = UserManagerConfigFactory(f_arg)
    /\ f_pc' = IF cf'.kind = "object" THEN "built" ELSE "done"
    /\ f_result' = IF cf'.kind = "object" THEN f_result
                   ELSE [kind |-> "raised", cls |-> "none", kwargs |-> <<>>, exc |-> cf'.exc]
    /\ UNCHANGED <<f_kind, f_arg, f_env, f_reads>>

\* ... and hands it to from_config of one of the two factories
FFromConfig ==
    /\ f_pc = "built"
    /\ LET r == from_config(f_kind, cf, f_env)
       IN  /\ f_result' = [kind |-> r.kind, cls |-> r.cls, kwargs |-> r.kwargs, exc |-> r.exc]
           /\ f_reads' = r.reads
    /\ f_pc' = "done"
    /\ UNCHANGED <<f_kind, f_arg, f_env, cf>>

FNext == FBuildConfigFactory \/ FFromConfig

InitFactory == FInit /\ PgIdle /\ LlmIdle

NextFactory == FNext /\ UNCHANGED <<pgVars, llmVars>>

SpecFactory == InitFactory /\ [][NextFactory]_vars

(***************************************************************************)
(* Claims about the factories (under SpecFactory)                          *)
(***************************************************************************)
\* the backend the caller asked UserManagerConfigFactory for
ArgBackend == IF f_arg.backend = None THEN sqlite ELSE f_arg.backend[1]

\* the field a key of the config dict populates
FieldOf(k) == IF k = "schema_" THEN "schema" ELSE k

\* C17: UserManagerConfigFactory turns backend "sqlite", "mysql", "postgres"
\* (default "sqlite") into an object whose config is an instance of
\* SQLiteUserManagerConfig, MySQLUserManagerConfig, PostgresUserManagerConfig
\* carrying the given fields over the class defaults; every other backend
\* string, a differently cased "MySQL" included, raises a validation error and
\* yields no object.
C17_ConfigDispatch ==
    f_pc \in {"built", "done"} =>
        /\ ArgBackend \in {sqlite, mysql, postgres} =>
            /\ cf.kind = "object"
            /\ cf.backend = ArgBackend
            /\ cf.config.cls = (CASE ArgBackend = sqlite -> "SQLiteUserManagerConfig"
                                  [] ArgBackend = mysql -> "MySQLUserManagerConfig"
                                  [] ArgBackend = postgres -> "PostgresUserManagerConfig")
            /\ \A k \in DOMAIN f_arg.config : cf.config.fields[FieldOf(k)] = f_arg.config[k]
            /\ "user_id" \notin DOMAIN f_arg.config => cf.config.fields["user_id"] = "root"
        /\ ArgBackend \notin {sqlite, mysql, postgres} =>
            /\ cf.kind = "error"
            /\ cf.exc.type = "ValidationError"
            /\ f_pc = "done"
            /\ f_result.kind = "raised"
            /\ f_reads = {}

C17_Witness ==
    /\ f_pc = "done"
    /\ f_arg.backend = Some(MySQL_mixed)
    /\ cf.kind = "error"
    /\ f_result.kind = "raised"

\* ---- what the environment names ----
EnvNonEmpty(n) == n \in DOMAIN f_env /\ f_env[n] # <<>>

\* the first non-empty backend variable's value, lowercased; empty when none
NamedBackend ==
    LET names == IF f_kind = "persistent"
                 THEN <<"MOS_PERSISTENT_USER_MANAGER", "MOS_USER_MANAGER",
                        "MOS_USER_MANAGER_BACKEND">>
                 ELSE <<"MOS_USER_MANAGER", "MOS_USER_MANAGER_BACKEND">>
        set == {i \in 1..Len(names) : EnvNonEmpty(names[i])}
    IN  IF set = {} THEN <<>>
        ELSE Lower(f_env[names[CHOOSE i \in set : \A j \in set : i <= j]])

SupportedBy(kind) == IF kind = "persistent" THEN {sqlite, mysql} ELSE {sqlite, mysql, postgres}

ExpectedClass(kind, b) ==
    CASE kind = "user" /\ b = sqlite -> "UserManager"
      [] kind = "user" /\ b = mysql -> "MySQLUserManager"
      [] kind = "user" /\ b = postgres -> "PostgresUserManager"
      [] kind = "persistent" /\ b = sqlite -> "PersistentUserManager"
      [] kind = "persistent" /\ b = mysql -> "MySQLPersistentUserManager"
      [] OTHER -> "none"

EnvOr(name, default) == IF name \in DOMAIN f_env THEN f_env[name] ELSE default

\* the text int() is given for the port of backend b
PortText(b) ==
    IF b = mysql THEN EnvOr("MYSQL_PORT", <<"3", "3", "0", "6">>)
    ELSE EnvOr("MOS_POSTGRES_PORT", EnvOr("POSTGRES_PORT", <<"5", "4", "3", "2">>))

PortRejected(b) == b \in {mysql, postgres} /\ ~py_int(PortText(b)).ok

FromConfigReturned == f_pc = "done" /\ cf.kind = "object"

\* C11 as stated: when the first non-empty backend variable, lowercased, names
\* a backend the factory supports, from_config creates the manager of that
\* backend's class, whatever backend the config argument names.
C11_Original ==
    (FromConfigReturned /\ NamedBackend \in SupportedBy(f_kind)) =>
        /\ f_result.kind = "manager"
        /\ f_result.cls = ExpectedClass(f_kind, NamedBackend)

\* C11 amended: the environment value is the first non-empty of
\* MOS_USER_MANAGER, MOS_USER_MANAGER_BACKEND (preceded by
\* MOS_PERSISTENT_USER_MANAGER in the persistent factory), lowercased.  When it
\* names a backend the factory supports: if the config argument's backend is
\* not one the factory supports, from_config raises ValueError without reading
\* the environment; otherwise it calls the class of the environment's backend,
\* unless that backend's port variable holds text int() rejects, which raises
\* ValueError.
C11_EnvBackendOverrides ==
    (FromConfigReturned /\ NamedBackend \in SupportedBy(f_kind)) =>
        IF cf.backend \notin SupportedBy(f_kind)
        THEN /\ f_result.kind = "raised"
             /\ f_result.exc.type = "ValueError"
             /\ f_reads = {}
        ELSE IF PortRejected(NamedBackend)
        THEN /\ f_result.kind = "raised"
             /\ f_result.exc.type = "ValueError"
        ELSE /\ f_result.kind = "manager"
             /\ f_result.cls = ExpectedClass(f_kind, NamedBackend)

C11_Witness ==
    /\ FromConfigReturned
    /\ f_kind = "persistent"
    /\ cf.backend = sqlite
    /\ "MOS_PERSISTENT_USER_MANAGER" \notin DOMAIN f_env
    /\ EnvOr("MOS_USER_MANAGER", <<"unset">>) = <<>>
    /\ EnvOr("MOS_USER_MANAGER_BACKEND", <<>>) = sqlite
    /\ f_result.kind = "manager"
    /\ f_result.cls = "PersistentUserManager"

\* ---- connection fields ----
\* the fields the loaders build for backend b: each variable's value when set,
\* the built-in default otherwise; user_id from the config argument
EnvFields(b, user_id) ==
    IF b = mysql
    THEN [user_id |-> user_id,
          host |-> EnvOr("MYSQL_HOST", "localhost"),
          port |-> py_int(PortText(mysql)).value,
          username |-> EnvOr("MYSQL_USERNAME", "root"),
          password |-> EnvOr("MYSQL_PASSWORD", ""),
          database |-> EnvOr("MYSQL_DATABASE", "memos_users"),
          charset |-> EnvOr("MYSQL_CHARSET", "utf8mb4")]
    ELSE [user_id |-> user_id,
          host |-> EnvOr("MOS_POSTGRES_HOST", EnvOr("POSTGRES_HOST", "localhost")),
          port |-> py_int(PortText(postgres)).value,
          username |-> EnvOr("MOS_POSTGRES_USERNAME", EnvOr("POSTGRES_USERNAME", "postgres")),
          password |-> EnvOr("MOS_POSTGRES_PASSWORD", EnvOr("POSTGRES_PASSWORD", "")),
          database |-> EnvOr("MOS_POSTGRES_DATABASE", EnvOr("POSTGRES_DATABASE", "memos_users")),
          schema |-> EnvOr("MOS_POSTGRES_SCHEMA", EnvOr("POSTGRES_SCHEMA", "memos")),
          sslmode |-> LET v == EnvOr("MOS_POSTGRES_SSLMODE", EnvOr("POSTGRES_SSLMODE", ""))
                      IN  IF v = "" THEN None ELSE Some(v)]

NetworkManagers ==
    {"MySQLUserManager", "MySQLPersistentUserManager", "PostgresUserManager"}

\* the host variable that applies to the manager class, if one is set
HostVariables(cls) ==
    IF cls = "PostgresUserManager"
    THEN (IF "MOS_POSTGRES_HOST" \in DOMAIN f_env THEN {"MOS_POSTGRES_HOST"}
          ELSE {"POSTGRES_HOST"} \cap DOMAIN f_env)
    ELSE {"MYSQL_HOST"} \cap DOMAIN f_env

\* C12 as stated: whenever the manager created is a mysql (or postgres) one,
\* a connection variable that is set overrides the config argument's field --
\* here the host -- whether the backend came from a backend variable or from
\* the config argument.
C12_Original ==
    (FromConfigReturned /\ f_result.kind = "manager" /\ f_result.cls \in NetworkManagers) =>
        \A n \in HostVariables(f_result.cls) : f_result.kwargs["host"] = f_env[n]

\* C12 amended: the connection variables are read only when a backend variable
\* names a backend the factory supports.  Then a mysql (postgres) manager gets,
\* for every connection field, the value of its variable (MYSQL_*;
\* MOS_POSTGRES_* before POSTGRES_*) when set and the built-in default
\* otherwise (an empty sslmode becoming None), the port parsed as an integer:
\* the config argument's fields other than user_id are discarded.  When the
\* backend comes from the config argument, its fields are passed as they are
\* and no connection variable is read.
C12_ConnectionVariables ==
    (FromConfigReturned /\ f_result.kind = "manager" /\ f_result.cls \in NetworkManagers) =>
        IF NamedBackend \in SupportedBy(f_kind)
        THEN /\ f_result.kwargs = EnvFields(NamedBackend, cf.config.fields["user_id"])
             /\ f_reads \cap ConnectionVariables =
                    (IF NamedBackend = mysql THEN MySQLVariables ELSE PostgresVariables)
        ELSE /\ f_result.kwargs = cf.config.fields
             /\ f_reads \cap ConnectionVariables = {}

C12_Witness ==
    /\ FromConfigReturned
    /\ f_kind = "user"
    /\ cf.backend = mysql
    /\ cf.config.fields["host"] = "db.internal"
    /\ NamedBackend = mysql
    /\ "MYSQL_HOST" \notin DOMAIN f_env
    /\ "MYSQL_PORT" \in DOMAIN f_env
    /\ f_result.kind = "manager"
    /\ f_result.kwargs["host"] = "localhost"
    /\ f_result.kwargs["port"] = 3307
    /\ f_result.kwargs["user_id"] = "admin"

\* C19: when the backend environment value is empty (no variable set, or set to
\* "") or names a backend the factory does not support, from_config reads no
\* connection variable and its result rests on the config argument alone: the
\* manager class of the config's backend called with the config's fields -- the
\* given ones as given -- or ValueError when the factory does not support the
\* config's backend.
C19_EnvIgnoredWhenUnsupported ==
    (FromConfigReturned /\ NamedBackend \notin SupportedBy(f_kind)) =>
        /\ f_reads \cap ConnectionVariables = {}
        /\ IF cf.backend \in SupportedBy(f_kind)
           THEN /\ f_result.kind = "manager"
                /\ f_result.cls = ExpectedClass(f_kind, cf.backend)
                /\ f_result.kwargs = cf.config.fields
                /\ \A k \in DOMAIN f_arg.config :
                     f_result.kwargs[FieldOf(k)] = f_arg.config[k]
           ELSE /\ f_result.kind = "raised"
                /\ f_result.exc.type = "ValueError"

C19_Witness ==
    /\ FromConfigReturned
    /\ f_kind = "persistent"
    /\ NamedBackend = postgres
    /\ cf.backend = mysql
    /\ "MYSQL_HOST" \in DOMAIN f_env
    /\ "MOS_POSTGRES_HOST" \in DOMAIN f_env
    /\ f_result.kind = "manager"
    /\ f_result.cls = "MySQLPersistentUserManager"
    /\ f_result.kwargs["host"] = "db.internal"

====
